---- MODULE Spec2Model ----
(***************************************************************************)
(* Model of DataHealthAssistant (data-health-assistant/data_assistant.py). *)
(*                                                                         *)
(* The state is the object's fields after __init__: the two loaded tables  *)
(* (items, recipes) and the report.  Every public method is one action.    *)
(* Text is a sequence of one-character strings; a table cell is a tagged   *)
(* record: Txt(s) for text, Flt/Int for a parsed number, NaN for a missing *)
(* cell (pandas NaN).                                                      *)
(***************************************************************************)
EXTENDS Integers, Sequences, FiniteSets, TLC

VARIABLES
    items,     \* self.items
    recipes,   \* self.recipes
    report,    \* self.report
    csv,       \* the two tables as pd.read_csv returned them; never written
    calls      \* the calls made so far on the object

vars == <<items, recipes, report, csv, calls>>

(***************************************************************************)
(* Characters and str methods                                              *)
(***************************************************************************)
\* The characters of the model's texts, in code-point order.
Alphabet ==
    << " ", "%", ",", ".", "0", "1", "2", "3", "4", "5", "6", "7", "8", "9",
       "F", "G", "K", "L", "M", "N", "[", "]",
       "a", "b", "c", "e", "f", "g", "i", "k", "l", "m", "n", "o", "p", "r",
       "s", "t", "u", "x", "y" >>

Ord(c) == CHOOSE i \in 1..Len(Alphabet) : Alphabet[i] = c

Digits == <<"0", "1", "2", "3", "4", "5", "6", "7", "8", "9">>

IsDigit(c) == \E i \in 1..10 : Digits[i] = c

DigitVal(c) == (CHOOSE i \in 1..10 : Digits[i] = c) - 1

IsSpace(c) == c = " "

\* str.lower() on one character
LowerChar(c) ==
    CASE c = "F" -> "f"
      [] c = "G" -> "g"
      [] c = "K" -> "k"
      [] c = "L" -> "l"
      [] c = "M" -> "m"
      [] OTHER   -> c

\* str.lower()
Lower(s) == [i \in 1..Len(s) |-> LowerChar(s[i])]

RECURSIVE LStrip(_)
LStrip(s) == IF s # <<>> /\ IsSpace(Head(s)) THEN LStrip(Tail(s)) ELSE s

RECURSIVE RStrip(_)
RStrip(s) ==
    IF s # <<>> /\ IsSpace(s[Len(s)]) THEN RStrip(SubSeq(s, 1, Len(s) - 1)) ELSE s

\* str.strip()
Strip(s) == RStrip(LStrip(s))

\* str.replace(c, '') for a one-character c
RemoveChar(s, c) == SelectSeq(s, LAMBDA d : d # c)

\* str.replace(r'[%\s]', '', regex=True)
RemovePercentAndSpace(s) == SelectSeq(s, LAMBDA d : d # "%" /\ ~IsSpace(d))

(***************************************************************************)
(* rapidfuzz.fuzz.token_sort_ratio                                         *)
(***************************************************************************)
\* str.split(): the maximal runs of non-whitespace characters
RECURSIVE SplitFrom(_, _, _)
SplitFrom(s, cur, acc) ==
    IF s = <<>>
    THEN IF cur = <<>> THEN acc ELSE Append(acc, cur)
    ELSE IF IsSpace(Head(s))
         THEN SplitFrom(Tail(s), <<>>, IF cur = <<>> THEN acc ELSE Append(acc, cur))
         ELSE SplitFrom(Tail(s), Append(cur, Head(s)), acc)

Split(s) == SplitFrom(s, <<>>, <<>>)

\* a < b for two texts, as Python compares str: by code point, a proper prefix first
RECURSIVE StrLess(_, _)
StrLess(a, b) ==
    IF b = <<>> THEN FALSE
    ELSE IF a = <<>> THEN TRUE
    ELSE IF Head(a) = Head(b) THEN StrLess(Tail(a), Tail(b))
    ELSE Ord(Head(a)) < Ord(Head(b))

\* insert token t into the sorted sequence of tokens ts
RECURSIVE InsertToken(_, _)
InsertToken(t, ts) ==
    IF ts = <<>> THEN <<t>>
    ELSE IF StrLess(t, Head(ts)) THEN <<t>> \o ts
    ELSE <<Head(ts)>> \o InsertToken(t, Tail(ts))

\* sorted(tokens)
RECURSIVE SortTokens(_)
SortTokens(ts) == IF ts = <<>> THEN <<>> ELSE InsertToken(Head(ts), SortTokens(Tail(ts)))

\* " ".join(tokens)
RECURSIVE JoinTokens(_)
JoinTokens(ts) ==
    IF ts = <<>> THEN <<>>
    ELSE IF Len(ts) = 1 THEN Head(ts)
    ELSE Head(ts) \o <<" ">> \o JoinTokens(Tail(ts))

Max(p, q) == IF p >= q THEN p ELSE q

\* length of a longest common subsequence of a and b
RECURSIVE LCSLen(_, _)
LCSLen(a, b) ==
    IF a = <<>> \/ b = <<>> THEN 0
    ELSE IF Head(a) = Head(b) THEN 1 + LCSLen(Tail(a), Tail(b))
    ELSE Max(LCSLen(Tail(a), b), LCSLen(a, Tail(b)))

\* a score on the scale 0..100, kept as the exact fraction num / den
Score(num, den) == [num |-> num, den |-> den]

\* fuzz.ratio: 100 * (1 - indel_distance / (len(a) + len(b))), where the indel
\* distance is len(a) + len(b) - 2 * lcs(a, b); two empty texts score 100
Ratio(a, b) ==
    IF Len(a) + Len(b) = 0 THEN Score(100, 1) ELSE Score(200 * LCSLen(a, b), Len(a) + Len(b))

\* " ".join(sorted(s.split()))
SortedTokens(s) == JoinTokens(SortTokens(Split(s)))

\* fuzz.token_sort_ratio: the ratio of the two texts with their tokens sorted
token_sort_ratio(a, b) == Ratio(SortedTokens(a), SortedTokens(b))

\* score x >= the integer cutoff c
ScoreAtLeast(x, c) == x.num >= c * x.den

\* score x > score y
ScoreGreater(x, y) == x.num * y.den > y.num * x.den

(***************************************************************************)
(* Table cells                                                             *)
(***************************************************************************)
\* a missing cell (pandas NaN)
NaN == [t |-> "nan"]

\* a text cell
Txt(s) == [t |-> "str", s |-> s]

\* an int64 cell
IntCell(n) == [t |-> "int", n |-> n]

\* a float cell with the value num / den, den a power of ten and the fraction
\* without trailing zeros
FltCell(num, den) == [t |-> "flt", num |-> num, den |-> den]

\* pd.isna / pd.notna
isna(c) == c.t = "nan"

notna(c) == ~isna(c)

\* the decimal digits of the natural number n
RECURSIVE NatDigits(_)
NatDigits(n) ==
    IF n < 10 THEN <<Digits[n + 1]>> ELSE NatDigits(n \div 10) \o <<Digits[(n % 10) + 1]>>

\* the value of a sequence of digits
RECURSIVE DigitsValue(_)
DigitsValue(ds) ==
    IF ds = <<>> THEN 0 ELSE 10 * DigitsValue(SubSeq(ds, 1, Len(ds) - 1)) + DigitVal(ds[Len(ds)])

RECURSIVE Pow10(_)
Pow10(k) == IF k = 0 THEN 1 ELSE 10 * Pow10(k - 1)

\* the digits of num / den after the point (num < den, den a power of ten)
RECURSIVE FracDigits(_, _)
FracDigits(num, den) ==
    IF den = 1 THEN <<>>
    ELSE <<Digits[(num \div (den \div 10)) + 1]>> \o FracDigits(num % (den \div 10), den \div 10)

\* a variant that prints no digit of the fraction
FloatRepr_NoFraction(num, den) == NatDigits(num \div den) \o <<".", "0">>

\* repr of the float num / den: at least one digit after the point
FloatRepr(num, den) ==
    NatDigits(num \div den) \o <<".">> \o (IF den = 1 THEN <<"0">> ELSE FracDigits(num % den, den))

\* what parsing a text gives: a number, integral when the text has no point
Parsed(isint, num, den) == [ok |-> TRUE, isint |-> isint, num |-> num, den |-> den]

Unparsable == [ok |-> FALSE]

\* the float num / den without trailing decimal zeros
RECURSIVE ParsedFloat(_, _)
ParsedFloat(num, den) ==
    IF den > 1 /\ num % 10 = 0 THEN ParsedFloat(num \div 10, den \div 10)
    ELSE Parsed(FALSE, num, den)

\* the number an unsigned decimal literal t denotes, dots the positions of its
\* points: digits, at most one point, at least one digit; anything else is
\* unparsable
ParseLiteral(t, dots) ==
    IF \/ t = <<>>
       \/ \E i \in 1..Len(t) : ~IsDigit(t[i]) /\ t[i] # "."
       \/ Cardinality(dots) > 1
       \/ Len(t) = Cardinality(dots)
    THEN Unparsable
    ELSE IF dots = {}
    THEN Parsed(TRUE, DigitsValue(t), 1)
    ELSE ParsedFloat(DigitsValue(SelectSeq(t, IsDigit)),
                     Pow10(Len(t) - (CHOOSE i \in dots : TRUE)))

Dots(t) == {i \in 1..Len(t) : t[i] = "."}

\* parsing of a numeric text, surrounding whitespace ignored
ParseDecimal(s) == ParseLiteral(Strip(s), Dots(Strip(s)))

\* the float of a parsed literal, or ValueError
FloatOf(p) == IF p.ok THEN [ok |-> TRUE, val |-> FltCell(p.num, p.den)] ELSE Unparsable

\* float(text)
PyFloat(s) == FloatOf(ParseDecimal(s))

\* str(x) of a cell value, as Series.astype(str) and str(row[...]) give it
AsStr(c) ==
    CASE c.t = "str" -> c.s
      [] c.t = "nan" -> <<"n", "a", "n">>
      [] c.t = "int" -> NatDigits(c.n)
      [] c.t = "flt" -> FloatRepr(c.num, c.den)

\* the cell of a parsed text: unparsable text becomes NaN (errors='coerce')
CellOf(p) ==
    IF ~p.ok THEN NaN ELSE IF p.isint THEN IntCell(p.num) ELSE FltCell(p.num, p.den)

\* pd.to_numeric(errors='coerce') on one element: numbers and missing cells
\* stay, text is parsed
ToNumericCell(c) == IF c.t = "str" THEN CellOf(ParseDecimal(c.s)) ELSE c

\* an int64 value stored in a float64 column
AsFloat(c) == IF c.t = "int" THEN FltCell(c.n, 1) ELSE c

\* the column's dtype: int64 when every element is an integer, else float64
Downcast(parsed) ==
    IF \A i \in 1..Len(parsed) : parsed[i].t = "int"
    THEN parsed
    ELSE [i \in 1..Len(parsed) |-> AsFloat(parsed[i])]

\* pd.to_numeric(column, errors='coerce')
to_numeric(col) == Downcast([i \in 1..Len(col) |-> ToNumericCell(col[i])])

\* Series.str.lower().str.strip(): missing cells stay missing
StrLowerStrip(c) == IF c.t = "str" THEN Txt(Strip(Lower(c.s))) ELSE c

\* Series.str.lower()
StrLower(c) == IF c.t = "str" THEN Txt(Lower(c.s)) ELSE c

(***************************************************************************)
(* __init__: the two tables as pd.read_csv types them                      *)
(***************************************************************************)
Column(tbl, f) == [i \in 1..Len(tbl) |-> tbl[i][f]]

\* every cell of the column is empty or the text of a number
AllNumeric(col) == \A i \in 1..Len(col) : col[i].t = "nan" \/ ParseDecimal(col[i].s).ok

\* dtype inference of one column of a file: a column whose cells are all
\* numbers or empty is int64 or float64, any other keeps its texts
read_column(col) == IF AllNumeric(col) THEN to_numeric(col) ELSE col

\* the item rows with the columns as read
ItemRows(names, units, sizes, prices, taxes, suppliers) ==
    [i \in 1..Len(names) |->
        [name |-> names[i], unit |-> units[i], size |-> sizes[i], price |-> prices[i],
         tax |-> taxes[i], supplier |-> suppliers[i]]]

\* pd.read_csv(items_path), from the cells of the file
read_items(cells) ==
    ItemRows(read_column(Column(cells, "name")), read_column(Column(cells, "unit")),
             read_column(Column(cells, "size")), read_column(Column(cells, "price")),
             read_column(Column(cells, "tax")), read_column(Column(cells, "supplier")))

\* the column of field f of the i-th ingredient slot
SlotColumn(cells, i, f) == [r \in 1..Len(cells) |-> cells[r].slots[i][f]]

\* pd.read_csv(recipes_path), from the cells of the file
read_recipes(cells) ==
    [r \in 1..Len(cells) |->
        [menu  |-> read_column(Column(cells, "menu"))[r],
         slots |-> [i \in DOMAIN cells[r].slots |->
                      [name |-> read_column(SlotColumn(cells, i, "name"))[r],
                       qty  |-> read_column(SlotColumn(cells, i, "qty"))[r],
                       unit |-> read_column(SlotColumn(cells, i, "unit"))[r]]]]]

(***************************************************************************)
(* clean_data                                                              *)
(***************************************************************************)

\* the .str accessor exists on an object column; a column holding only
\* missing cells is float64 and the accessor raises AttributeError
HasStrAccessor(col) == col = <<>> \/ \E i \in 1..Len(col) : col[i].t = "str"

\* the price column before parsing: astype(str).str.replace(',', '')
PriceText(c) == Txt(RemoveChar(AsStr(c), ","))

\* the tax column before parsing: astype(str).str.replace(r'[%\s]', '', regex=True)
TaxText(c) == Txt(RemovePercentAndSpace(AsStr(c)))

\* the table with the five columns assigned; the statements run in order, and
\* one that raises leaves the columns before it assigned and the rest untouched
Cleaned(tbl, names, units, sizes, prices, taxes) ==
    IF ~HasStrAccessor(Column(tbl, "name"))
    THEN [ok |-> FALSE, items |-> tbl]
    ELSE IF ~HasStrAccessor(Column(tbl, "unit"))
    THEN [ok |-> FALSE, items |-> [i \in 1..Len(tbl) |-> [tbl[i] EXCEPT !.name = names[i]]]]
    ELSE [ok |-> TRUE,
          items |-> [i \in 1..Len(tbl) |->
                       [tbl[i] EXCEPT !.name = names[i], !.unit = units[i],
                                      !.size = sizes[i], !.price = prices[i],
                                      !.tax = taxes[i]]]]

\* the item table after clean_data(), and whether it returned
clean_data(tbl) ==
    Cleaned(tbl,
            [i \in 1..Len(tbl) |-> StrLowerStrip(tbl[i].name)],
            [i \in 1..Len(tbl) |-> StrLowerStrip(tbl[i].unit)],
            to_numeric(Column(tbl, "size")),
            to_numeric([i \in 1..Len(tbl) |-> PriceText(tbl[i].price)]),
            to_numeric([i \in 1..Len(tbl) |-> TaxText(tbl[i].tax)]))

(***************************************************************************)
(* Configuration set by __init__                                           *)
(***************************************************************************)
allowed_units == { <<"g">>, <<"k", "g">>, <<"m", "l">>, <<"l">>, <<"e", "a">> }

LimitG == 10000
LimitKg == 50
LimitMl == 20000
LimitL == 200
LimitEa == 1000

quantity_limits ==
    [u \in allowed_units |->
        CASE u = <<"g">>  -> LimitG
          [] u = <<"k", "g">> -> LimitKg
          [] u = <<"m", "l">> -> LimitMl
          [] u = <<"l">>  -> LimitL
          [] u = <<"e", "a">> -> LimitEa]

\* the default of find_duplicates' threshold parameter
threshold == 90

\* process.extract is called without limit=, so rapidfuzz's default applies
extract_limit == 5

\* self.report as __init__ builds it
EmptyReport ==
    [duplicates       |-> <<>>,
     unit_issues      |-> [items |-> <<>>, recipes |-> <<>>],
     quantity_issues  |-> <<>>,
     missing_data     |-> <<>>,
     recipe_issues    |-> <<>>,
     unit_consistency |-> <<>>]

(***************************************************************************)
(* find_duplicates                                                         *)
(***************************************************************************)
\* Series.unique(): the distinct cells in order of first appearance
RECURSIVE UniqueFrom(_, _)
UniqueFrom(col, acc) ==
    IF col = <<>> THEN acc
    ELSE UniqueFrom(Tail(col),
                    IF \E j \in 1..Len(acc) : acc[j] = Head(col) THEN acc ELSE Append(acc, Head(col)))

unique(col) == UniqueFrom(col, <<>>)

\* insert match m, whose index is below those of ms, into ms, which is ordered
\* by falling score and, among equal scores, by rising index
RECURSIVE InsertMatch(_, _)
InsertMatch(m, ms) ==
    IF ms = <<>> THEN <<m>>
    ELSE IF ~ScoreGreater(Head(ms).score, m.score) THEN <<m>> \o ms
    ELSE <<Head(ms)>> \o InsertMatch(m, Tail(ms))

\* the score of one choice; a missing choice is skipped unscored
ChoiceScore(query, c) == IF isna(c) THEN Score(0, 1) ELSE token_sort_ratio(query, c.s)

\* the choice at index i joins the matches found after it when it is not
\* missing and scores at least the cutoff
WithChoice(c, i, sc, cutoff, rest) ==
    IF isna(c) \/ ~ScoreAtLeast(sc, cutoff) THEN rest
    ELSE InsertMatch([choice |-> c.s, score |-> sc, index |-> i], rest)

\* the scored choices from index i on, best first
RECURSIVE ScoredFrom(_, _, _, _)
ScoredFrom(query, choices, i, cutoff) ==
    IF i > Len(choices) THEN <<>>
    ELSE WithChoice(choices[i], i, ChoiceScore(query, choices[i]), cutoff,
                    ScoredFrom(query, choices, i + 1, cutoff))

FirstN(q, n) == SubSeq(q, 1, IF Len(q) < n THEN Len(q) ELSE n)

\* process.extract(query, choices, scorer=fuzz.token_sort_ratio, score_cutoff=cutoff):
\* missing choices are skipped, the choices scoring at least the cutoff are
\* ordered best first, and the first extract_limit of them are returned
extract(query, choices, cutoff) == FirstN(ScoredFrom(query, choices, 1, cutoff), extract_limit)

\* a variant that lets names claimed by an earlier cluster through
valid_matches_KeepSeen(matches, item, seen) == SelectSeq(matches, LAMBDA m : m.choice # item)

\* the matches that are neither the item itself nor claimed already
valid_matches(matches, item, seen) ==
    SelectSeq(matches, LAMBDA m : m.choice # item /\ m.choice \notin seen)

\* the end of the loop body: a cluster is appended and its names are claimed
\* when there is a valid match.  st is [seen, dups].
EmitCluster(item, valid, st) ==
    IF valid = <<>> THEN st
    ELSE [seen |-> st.seen \cup {item} \cup {valid[k].choice : k \in 1..Len(valid)},
          dups |-> Append(st.dups,
                          [original   |-> item,
                           matches    |-> [k \in 1..Len(valid) |-> valid[k].choice],
                           confidence |-> [k \in 1..Len(valid) |-> valid[k].score]])]

\* the loop body of find_duplicates for one unique name
DuplicatesOf(item, names, st, cutoff) ==
    IF isna(item) \/ item.s \in st.seen THEN st
    ELSE EmitCluster(item.s, valid_matches(extract(item.s, names, cutoff), item.s, st.seen), st)

\* the loop of find_duplicates from the i-th unique name on
RECURSIVE FindDuplicatesFrom(_, _, _, _)
FindDuplicatesFrom(names, i, st, cutoff) ==
    IF i > Len(names) THEN st
    ELSE FindDuplicatesFrom(names, i + 1, DuplicatesOf(names[i], names, st, cutoff), cutoff)

\* report['duplicates'] after find_duplicates(): seen starts empty, and the
\* clusters are appended to the list already in the report
find_duplicates(tbl, dups) ==
    FindDuplicatesFrom(unique(Column(tbl, "name")), 1, [seen |-> {}, dups |-> dups], threshold).dups

(***************************************************************************)
(* validate_units_and_quantities                                           *)
(***************************************************************************)
\* Python's None
None == [t |-> "none"]

\* truth value of a str-or-None
Truthy(u) == u.t = "str" /\ u.s # <<>>

\* Series.isin(allowed_units)
IsAllowedUnit(c) == c.t = "str" /\ c.s \in allowed_units

\* the text keys of dict(zip(names.str.lower(), units.str.lower()))
ItemUnitKeys(tbl) == {Lower(tbl[i].name.s) : i \in {j \in 1..Len(tbl) : tbl[j].name.t = "str"}}

\* the last row with the key k
LastRowNamed(tbl, k) ==
    CHOOSE i \in 1..Len(tbl) :
        /\ StrLower(tbl[i].name) = Txt(k)
        /\ \A j \in 1..Len(tbl) : StrLower(tbl[j].name) = Txt(k) => j <= i

\* dict(zip(...)): a later row overwrites an earlier one with the same key
item_unit_map(tbl) == [k \in ItemUnitKeys(tbl) |-> StrLower(tbl[LastRowNamed(tbl, k)].unit)]

\* str(row[name]).lower().strip()
SlotIngredient(slot) == Strip(Lower(AsStr(slot.name)))

\* str(unit_raw).lower().strip() if pd.notna(unit_raw) else None
SlotUnit(slot) == IF notna(slot.unit) THEN Txt(Strip(Lower(AsStr(slot.unit)))) ELSE None

\* float(str(qty).replace(',', '')), evaluated when qty is not missing
SlotQuantity(slot) == IF notna(slot.qty) THEN PyFloat(RemoveChar(AsStr(slot.qty), ",")) ELSE Unparsable

\* a variant that reports a quantity equal to the limit
ExceedsLimit_OrEqual(x, limit) == x.num >= limit * x.den

\* x > limit for a parsed float x
ExceedsLimit(x, limit) == x.num > limit * x.den

\* unit validation of one slot
UnitIssue(menu, ingredient, unit) ==
    IF Truthy(unit) /\ unit.s \notin allowed_units
    THEN << [recipe |-> menu, ingredient |-> ingredient,
             issue |-> <<"Invalid unit", unit.s>>, type |-> "unit"] >>
    ELSE <<>>

\* a variant in which a slot with a disallowed unit is not parsed
NonNumericIssue_SkipBadUnit(menu, ingredient, unit, qty, q) ==
    IF notna(qty) /\ ~q.ok /\ ~(Truthy(unit) /\ unit.s \notin allowed_units)
    THEN << [recipe |-> menu, ingredient |-> ingredient,
             issue |-> <<"Non-numeric quantity", AsStr(qty)>>, type |-> "quantity"] >>
    ELSE <<>>

\* the except ValueError branch of one slot
NonNumericIssue(menu, ingredient, unit, qty, q) ==
    IF notna(qty) /\ ~q.ok
    THEN << [recipe |-> menu, ingredient |-> ingredient,
             issue |-> <<"Non-numeric quantity", AsStr(qty)>>, type |-> "quantity"] >>
    ELSE <<>>

\* quantity validation of one slot
QuantityIssue(menu, ingredient, unit, qty, q) ==
    IF /\ notna(qty)
       /\ q.ok
       /\ Truthy(unit)
       /\ unit.s \in DOMAIN quantity_limits
       /\ ExceedsLimit(q.val, quantity_limits[unit.s])
    THEN << [recipe |-> menu, ingredient |-> ingredient, quantity |-> q.val,
             unit |-> unit.s, limit |-> quantity_limits[unit.s]] >>
    ELSE <<>>

\* unit consistency check of one slot
UnitConsistencyIssue(menu, ingredient, unit, map) ==
    IF ingredient \in DOMAIN map /\ Truthy(unit) /\ unit # map[ingredient]
    THEN << [recipe |-> menu, ingredient |-> ingredient,
             recipe_unit |-> unit.s, item_unit |-> map[ingredient]] >>
    ELSE <<>>

\* a variant in which the except branch ends the slot's iteration
SlotChecks_StopAtBadQuantity(menu, ingredient, unit, qty, q, map, acc) ==
    [recipe_issues    |-> acc.recipe_issues \o UnitIssue(menu, ingredient, unit)
                             \o NonNumericIssue(menu, ingredient, unit, qty, q),
     quantity_issues  |-> acc.quantity_issues \o QuantityIssue(menu, ingredient, unit, qty, q),
     unit_consistency |-> IF notna(qty) /\ ~q.ok THEN acc.unit_consistency
                          ELSE acc.unit_consistency \o UnitConsistencyIssue(menu, ingredient, unit, map)]

\* the body of the inner loop: what one slot appends to the three lists
SlotChecks(menu, ingredient, unit, qty, q, map, acc) ==
    [recipe_issues    |-> acc.recipe_issues \o UnitIssue(menu, ingredient, unit)
                             \o NonNumericIssue(menu, ingredient, unit, qty, q),
     quantity_issues  |-> acc.quantity_issues \o QuantityIssue(menu, ingredient, unit, qty, q),
     unit_consistency |-> acc.unit_consistency \o UnitConsistencyIssue(menu, ingredient, unit, map)]

\* the number of ingredient slots of a recipe row: range(1, 5)
NumSlots == 4

\* the loops over rows and slots, from row r, slot i on
RECURSIVE ScanUnits(_, _, _, _, _)
ScanUnits(rcp, map, r, i, acc) ==
    IF r > Len(rcp) THEN acc
    ELSE IF i > NumSlots THEN ScanUnits(rcp, map, r + 1, 1, acc)
    ELSE ScanUnits(rcp, map, r, i + 1,
                   SlotChecks(rcp[r].menu, SlotIngredient(rcp[r].slots[i]),
                              SlotUnit(rcp[r].slots[i]), rcp[r].slots[i].qty,
                              SlotQuantity(rcp[r].slots[i]), map, acc))

NoIssues == [recipe_issues |-> <<>>, quantity_issues |-> <<>>, unit_consistency |-> <<>>]

\* a variant that also empties the section of validate_recipes
WithUnitSections_ClearsRecipeIssues(rep, item_issues, scan) ==
    [rep EXCEPT !.unit_issues.items   = item_issues,
                !.unit_issues.recipes = scan.recipe_issues,
                !.quantity_issues     = scan.quantity_issues,
                !.unit_consistency    = scan.unit_consistency,
                !.recipe_issues       = <<>>]

\* the four assignments that end validate_units_and_quantities
WithUnitSections(rep, item_issues, scan) ==
    [rep EXCEPT !.unit_issues.items   = item_issues,
                !.unit_issues.recipes = scan.recipe_issues,
                !.quantity_issues     = scan.quantity_issues,
                !.unit_consistency    = scan.unit_consistency]

\* the report after validate_units_and_quantities()
validate_units_and_quantities(tbl, rcp, rep) ==
    WithUnitSections(rep,
                     SelectSeq(tbl, LAMBDA row : ~IsAllowedUnit(row.unit)),
                     ScanUnits(rcp, item_unit_map(tbl), 1, 1, NoIssues))

(***************************************************************************)
(* check_missing_data                                                      *)
(***************************************************************************)
\* .isnull().any(axis=1) over the four required columns
HasMissingField(row) ==
    isna(row.supplier) \/ isna(row.size) \/ isna(row.unit) \/ isna(row.price)

\* the report after check_missing_data()
check_missing_data(tbl, rep) ==
    [rep EXCEPT !.missing_data =
        [missing_fields    |-> SelectSeq(tbl, HasMissingField),
         invalid_tax_rates |-> SelectSeq(tbl, LAMBDA row : isna(row.tax))]]

(***************************************************************************)
(* validate_recipes                                                        *)
(***************************************************************************)
TagNaN == <<"[", "N", "a", "N", "]">>

TagEmpty == <<"[", "e", "m", "p", "t", "y", " ", "s", "t", "r", "i", "n", "g", "]">>

\* the texts in set(self.items['Item name'])
valid_items(tbl) == {tbl[i].name.s : i \in {j \in 1..Len(tbl) : tbl[j].name.t = "str"}}

\* one entry of issues; the position is the text f'Ingredient {i}'
Finding(menu, value, i) ==
    [recipe |-> menu, missing_ingredient |-> value, position |-> <<"Ingredient", i>>]

\* a variant that takes a blank name for a missing one
SlotFinding_BlankAsNaN(menu, i, ingredient_raw, ingredient, valid) ==
    IF isna(ingredient_raw) \/ ingredient = <<>> THEN <<Finding(menu, TagNaN, i)>>
    ELSE IF ingredient \notin valid THEN <<Finding(menu, ingredient, i)>>
    ELSE <<>>

\* the body of the inner loop: what slot i of a row appends to issues
SlotFinding(menu, i, ingredient_raw, ingredient, valid) ==
    IF isna(ingredient_raw) THEN <<Finding(menu, TagNaN, i)>>
    ELSE IF ingredient = <<>> THEN <<Finding(menu, TagEmpty, i)>>
    ELSE IF ingredient \notin valid THEN <<Finding(menu, ingredient, i)>>
    ELSE <<>>

\* the loops over rows and slots, from row r, slot i on
RECURSIVE ScanRecipes(_, _, _, _, _)
ScanRecipes(rcp, valid, r, i, acc) ==
    IF r > Len(rcp) THEN acc
    ELSE IF i > NumSlots THEN ScanRecipes(rcp, valid, r + 1, 1, acc)
    ELSE ScanRecipes(rcp, valid, r, i + 1,
                     acc \o SlotFinding(rcp[r].menu, i, rcp[r].slots[i].name,
                                        SlotIngredient(rcp[r].slots[i]), valid))

\* the report after validate_recipes()
validate_recipes(tbl, rcp, rep) ==
    [rep EXCEPT !.recipe_issues = ScanRecipes(rcp, valid_items(tbl), 1, 1, <<>>)]

(***************************************************************************)
(* generate_report                                                         *)
(***************************************************************************)
\* the report after find_duplicates()
WithDuplicates(tbl, rep) == [rep EXCEPT !.duplicates = find_duplicates(tbl, rep.duplicates)]

\* the four validators in the order of generate_report, on the cleaned table;
\* clean_data raising ends the call with the report untouched
Validated(c, rcp, rep) ==
    IF c.ok
    THEN [ok |-> TRUE, items |-> c.items,
          report |-> validate_recipes(c.items, rcp,
                         check_missing_data(c.items,
                             validate_units_and_quantities(c.items, rcp,
                                 WithDuplicates(c.items, rep))))]
    ELSE [ok |-> FALSE, items |-> c.items, report |-> rep]

\* the object after generate_report(); the files it writes are not modelled
generate_report(tbl, rcp, rep) == Validated(clean_data(tbl), rcp, rep)

(***************************************************************************)
(* Inputs: the cells of the two files, typed by read_csv in InitWith      *)
(***************************************************************************)
Item(name, unit, size, price, tax, supplier) ==
    [name |-> name, unit |-> unit, size |-> size, price |-> price, tax |-> tax,
     supplier |-> supplier]

Slot(name, qty, unit) == [name |-> name, qty |-> qty, unit |-> unit]

Recipe(menu, s1, s2, s3, s4) == [menu |-> menu, slots |-> <<s1, s2, s3, s4>>]

EmptySlot == Slot(NaN, NaN, NaN)

\* Two items files.  Both hold a raw name that needs trimming and case
\* folding, two near-duplicate names, an item without a unit and an item
\* without a name; the second also holds a second row for "milk" with another
\* unit, which replaces the first in the name-to-unit map.
ItemsA ==
    << Item(Txt(<<" ", "M", "i", "l", "k", " ">>), Txt(<<" ", "L">>), Txt(<<"1">>), Txt(<<"1", ",", "0", "0", "0">>), Txt(<<"2", "0", "%">>), Txt(<<"s", "1">>)),
       Item(Txt(<<"f", "l", "o", "u", "r">>), NaN, Txt(<<"1", ".", "5">>), Txt(<<"2">>), Txt(<<"a", "b", "c">>), Txt(<<"s", "1">>)),
       Item(Txt(<<"F", "l", "o", "u", "r", "s">>), Txt(<<"c", "u", "p">>), Txt(<<"a", "b", "c">>), Txt(<<"2">>), Txt(<<"5">>), NaN),
       Item(NaN, Txt(<<"g">>), Txt(<<"1">>), Txt(<<"2">>), Txt(<<"5">>), Txt(<<"s", "1">>)) >>

ItemsB == Append(ItemsA, Item(Txt(<<"M", "I", "L", "K">>), Txt(<<"m", "l">>), Txt(<<"1">>), Txt(<<"2">>), Txt(<<"5">>), Txt(<<"s", "1">>)))

ItemTables == {ItemsA, ItemsB}

\* The cells of the first slot of the first recipe: every combination of
\* a name (missing, blank, known after normalization, known without a unit,
\* unknown, unknown and spelled like the tag of a blank name), a quantity (missing, non-numeric, and the numbers at and just above
\* each ceiling) and a unit (missing, blank, every allowed unit in some
\* spelling, a disallowed one).
SlotNames ==
    { NaN, Txt(<<" ", " ">>), Txt(<<"M", "i", "l", "k">>), Txt(<<" ", "F", "l", "o", "u", "r">>), Txt(<<"s", "a", "l", "t">>), Txt(<<"[", "e", "m", "p", "t", "y", " ", "s", "t", "r", "i", "n", "g", "]">>) }

SlotQtys ==
    { NaN, Txt(<<"a", "b", "c">>), Txt(<<"5", "0">>), Txt(<<"5", "0", ".", "5">>), Txt(<<"2", "0", "0">>), Txt(<<"2", "0", "1">>),
      Txt(<<"1", ",", "0", "0", "0">>), Txt(<<"1", ",", "0", "0", "1">>), Txt(<<"1", "0", ",", "0", "0", "0">>), Txt(<<"1", "0", ",", "0", "0", "1">>),
      Txt(<<"2", "0", ",", "0", "0", "0">>), Txt(<<"2", "0", ",", "0", "0", "1">>) }

SlotUnits ==
    { NaN, Txt(<<" ">>), Txt(<<"K", "G">>), Txt(<<" ", "l", " ">>), Txt(<<"g">>), Txt(<<"M", "L">>), Txt(<<"e", "a">>),
      Txt(<<"c", "u", "p">>) }

\* the other three slots of the first recipe, each with defects
SlotTail ==
    << Slot(Txt(<<"M", "i", "l", "k">>), Txt(<<"5", "1">>), Txt(<<"k", "g">>)),
       Slot(NaN, Txt(<<"x">>), Txt(<<"c", "u", "p">>)),
       Slot(Txt(<<"s", "a", "l", "t">>), Txt(<<"a", "b", "c">>), Txt(<<"L">>)) >>

\* the recipes after the first: one, named like the first recipe, with defects
\* in every slot, then one with nothing to report but a slot without quantity
\* and unit, then unused rows
FillerRecipe(k) ==
    IF k = 1
    THEN Recipe(Txt(<<"c", "a", "k", "e">>), Slot(Txt(<<"M", "i", "l", "k">>), Txt(<<"a", "b", "c">>), Txt(<<"c", "u", "p">>)),
                               Slot(NaN, Txt(<<"2", "0", "1">>), Txt(<<"l">>)),
                               Slot(Txt(<<" ">>), Txt(<<"a", "b", "c">>), Txt(<<"K", "G">>)),
                               Slot(Txt(<<"s", "a", "l", "t">>), Txt(<<"5", "1">>), Txt(<<"k", "g">>)))
    ELSE IF k = 2
    THEN Recipe(Txt(<<"s", "o", "u", "p">>), Slot(Txt(<<"m", "i", "l", "k">>), Txt(<<"1">>), Txt(<<"m", "l">>)),
                               Slot(Txt(<<"m", "i", "l", "k">>), Txt(<<"2">>), Txt(<<"m", "l">>)),
                               Slot(Txt(<<"m", "i", "l", "k">>), NaN, NaN),
                               Slot(Txt(<<"m", "i", "l", "k">>), Txt(<<"1", ".", "5">>), Txt(<<"m", "l">>)))
    ELSE Recipe(Txt(<<"t", "e", "a">>), EmptySlot, EmptySlot, EmptySlot, EmptySlot)

\* the greatest number of recipes after the first
MaxFillers == 1

\* the first n recipes after the first
Fillers(n) == [k \in 1..n |-> FillerRecipe(k)]

\* no call yet; ran lists the validators called, in call order
InitCalls == [clean |-> 0, raised |-> FALSE, ran |-> <<>>, runs |-> 0]

\* the object as __init__ leaves it; csv keeps the two tables as read
Constructed(tbl, rcp) ==
    /\ items = tbl
    /\ recipes = rcp
    /\ csv = [items |-> tbl, recipes |-> rcp]
    /\ report = EmptyReport
    /\ calls = InitCalls

\* __init__ on files with the given cells
InitWith(item_cells, recipe_cells) ==
    Constructed(read_items(item_cells), read_recipes(recipe_cells))

\* the inputs of full runs
Init ==
    \E tbl \in ItemTables, n \in SlotNames, q \in SlotQtys, u \in SlotUnits, more \in 0..MaxFillers :
        InitWith(tbl, <<Recipe(Txt(<<"c", "a", "k", "e">>), Slot(n, q, u), SlotTail[1], SlotTail[2], SlotTail[3])>>
                      \o Fillers(more))

\* the inputs of validators run one by one: as for full runs, with fewer
\* quantities and units in the first slot
InitOrder ==
    \E tbl \in ItemTables, n \in SlotNames, q \in {Txt(<<"a", "b", "c">>), Txt(<<"5", "1">>)},
       u \in {Txt(<<"K", "G">>), Txt(<<"c", "u", "p">>)}, more \in 0..MaxFillers :
        InitWith(tbl, <<Recipe(Txt(<<"c", "a", "k", "e">>), Slot(n, q, u), SlotTail[1], SlotTail[2], SlotTail[3])>>
                      \o Fillers(more))

\* an item row with nothing wrong but its name
PlainItem(name) == Item(name, Txt(<<"k", "g">>), Txt(<<"1">>), Txt(<<"1">>), Txt(<<"2", "0", "%">>), Txt(<<"s", "1">>))

PlainSlot == Slot(Txt(<<"f", "l", "o", "u", "r">>), Txt(<<"1">>), Txt(<<"k", "g">>))

PlainRecipe == Recipe(Txt(<<"c", "a", "k", "e">>), PlainSlot, PlainSlot, PlainSlot, PlainSlot)

\* Item names for duplicate detection: a name whose five one-letter variants
\* all score 10/11 of 100 against it and 10/12 against each other, and a name
\* that is near one variant only once its tokens are sorted
DupNames ==
    { Txt(<<"f", "l", "o", "u", "r">>), Txt(<<"F", "l", "o", "u", "r", "s", " ">>), Txt(<<"f", "l", "o", "u", "r", "y">>), Txt(<<"f", "l", "o", "u", "r", "1">>), Txt(<<"f", "l", "o", "u", "r", "2">>),
      Txt(<<"f", "l", "o", "u", "r", "x">>), Txt(<<"s", " ", "f", "l", "o", "u", "r">>) }

\* the greatest number of item rows in duplicate detection
MaxItems == 6

\* the sequences of at most n distinct elements of S
LongerInj(shorter, S, n) ==
    shorter \cup
    UNION { {Append(q, x) : x \in S \ {q[i] : i \in 1..Len(q)}} :
              q \in {p \in shorter : Len(p) = n - 1} }

RECURSIVE InjSeqs(_, _)
InjSeqs(S, n) == IF n = 0 THEN {<<>>} ELSE LongerInj(InjSeqs(S, n - 1), S, n)

\* item tables for duplicate detection: any order of any MaxItems of DupNames
InitDup ==
    \E names \in InjSeqs(DupNames, MaxItems) :
        InitWith([i \in 1..Len(names) |-> PlainItem(names[i])], <<PlainRecipe>>)

\* Raw cells for normalization: text that needs case folding and trimming,
\* numbers with and without a fraction, a thousands separator, a percent sign
\* and inner whitespace, unparsable text and missing cells
CleanNames == { Txt(<<" ", "M", "i", "l", "k", " ">>), NaN }
CleanUnits == { Txt(<<" ", "K", "G", " ">>), NaN }
CleanSizes == { Txt(<<"1", "2">>), Txt(<<"1", ".", "5">>), Txt(<<"1", ",", "0", "0", "0">>), Txt(<<"a", "b", "c">>), NaN }
CleanPrices == { Txt(<<"5">>), Txt(<<"1", "2", ".", "5", "0">>), Txt(<<"1", ",", "0", "0", "0">>), Txt(<<"a", "b", "c">>), NaN }
CleanTaxes == { Txt(<<"5">>), Txt(<<" ", "7", ".", "5", " ", "%">>), Txt(<<"2", "0", "%">>), Txt(<<"a", "b", "c">>), NaN }

\* the rows after the first: none, one whose numbers are all integers, or one
\* whose numbers all have a fraction
CleanFillers ==
    { <<>>,
      << Item(Txt(<<"f", "l", "o", "u", "r">>), Txt(<<"g">>), Txt(<<"3">>), Txt(<<"4">>), Txt(<<"5">>), Txt(<<"s", "1">>)) >>,
      << Item(Txt(<<"s", "a", "l", "t">>), Txt(<<"g">>), Txt(<<"0", ".", "5">>), Txt(<<"0", ".", "2", "5">>), Txt(<<"1", "0", ".", "0">>), NaN) >> }

InitClean ==
    \E n \in CleanNames, u \in CleanUnits, s \in CleanSizes, p \in CleanPrices, x \in CleanTaxes,
       more \in CleanFillers :
        InitWith(<<Item(n, u, s, p, x, Txt(<<"s", "1">>))>> \o more, <<PlainRecipe>>)

(***************************************************************************)
(* Actions: one per method call                                            *)
(***************************************************************************)
\* the object after clean_data() returned or raised
Cleans(c) ==
    /\ items' = c.items
    /\ calls' = [calls EXCEPT !.clean = @ + 1, !.raised = ~c.ok]
    /\ UNCHANGED <<recipes, report, csv>>

\* the first call of clean_data
CleanData == calls.clean = 0 /\ Cleans(clean_data(items))

\* the greatest number of calls of clean_data
MaxCleans == 3

\* clean_data called again on the table it has normalized
CleanDataAgain == calls.clean >= 1 /\ calls.clean < MaxCleans /\ Cleans(clean_data(items))

\* the object after validator v returned with the report rep
Validates(v, rep) ==
    /\ report' = rep
    /\ calls' = [calls EXCEPT !.ran = Append(@, v)]
    /\ UNCHANGED <<items, recipes, csv>>

\* a validator is called once, after clean_data returned
CanValidate(v) ==
    calls.clean >= 1 /\ ~calls.raised /\ \A k \in 1..Len(calls.ran) : calls.ran[k] # v

FindDuplicates ==
    /\ CanValidate("find_duplicates")
    /\ Validates("find_duplicates", WithDuplicates(items, report))

ValidateUnitsAndQuantities ==
    /\ CanValidate("validate_units_and_quantities")
    /\ Validates("validate_units_and_quantities", validate_units_and_quantities(items, recipes, report))

CheckMissingData ==
    /\ CanValidate("check_missing_data")
    /\ Validates("check_missing_data", check_missing_data(items, report))

ValidateRecipes ==
    /\ CanValidate("validate_recipes")
    /\ Validates("validate_recipes", validate_recipes(items, recipes, report))

\* the object after generate_report() returned or raised
Generates(g) ==
    /\ items' = g.items
    /\ report' = g.report
    /\ calls' = [calls EXCEPT !.runs = @ + 1, !.raised = ~g.ok]
    /\ UNCHANGED <<recipes, csv>>

\* the greatest number of calls of generate_report
MaxRuns == 2

GenerateReport ==
    /\ calls.runs < MaxRuns
    /\ ~calls.raised
    /\ Generates(generate_report(items, recipes, report))

(***************************************************************************)
(* Specifications                                                          *)
(***************************************************************************)
\* full runs: generate_report, called again and again on the same object
Next == GenerateReport

Spec == Init /\ [][Next]_vars

\* duplicate detection alone: clean_data, then find_duplicates
NextDup == CleanData \/ FindDuplicates

SpecDup == InitDup /\ [][NextDup]_vars

\* the four validators called one by one, in any order, after clean_data
NextOrder ==
    \/ CleanData
    \/ FindDuplicates
    \/ ValidateUnitsAndQuantities
    \/ CheckMissingData
    \/ ValidateRecipes

SpecOrder == InitOrder /\ [][NextOrder]_vars

\* normalization alone: clean_data, called again and again
NextClean == CleanData \/ CleanDataAgain

SpecClean == InitClean /\ [][NextClean]_vars

(***************************************************************************)
(* Duplicate detection (SpecDup)                                           *)
(***************************************************************************)
SeqToSet(q) == {q[i] : i \in 1..Len(q)}

\* the names of a cluster
Members(c) == {c.original} \cup SeqToSet(c.matches)

DupDone == "find_duplicates" \in SeqToSet(calls.ran)

\* C1: after find_duplicates no name is the original of two clusters, a name
\* matched in one cluster appears nowhere in a later cluster, and every cluster
\* has at least one match and does not list its original among its matches.
C1_ClustersDisjoint ==
    DupDone =>
        LET D == report.duplicates
        IN /\ \A i, j \in 1..Len(D) :
                i < j => /\ D[i].original # D[j].original
                         /\ SeqToSet(D[i].matches) \cap Members(D[j]) = {}
           /\ \A i \in 1..Len(D) :
                /\ D[i].matches # <<>>
                /\ D[i].original \notin SeqToSet(D[i].matches)

\* two clusters were emitted, and a name claimed by the first scores at least
\* the threshold against the original of the second
C1_Witness ==
    /\ DupDone
    /\ \E i, j \in 1..Len(report.duplicates) :
          /\ i < j
          /\ \E m \in Members(report.duplicates[i]) :
                ScoreAtLeast(token_sort_ratio(report.duplicates[j].original, m), threshold)

\* the distinct item names find_duplicates scans, in scan order
ScannedNames == SelectSeq(unique(Column(items, "name")), LAMBDA c : notna(c))

PosOf(n) == CHOOSE i \in 1..Len(ScannedNames) : ScannedNames[i].s = n

\* the names claimed by the clusters seeded before name n is reached
ClaimedBefore(n) ==
    UNION {Members(report.duplicates[k]) :
             k \in {j \in 1..Len(report.duplicates) :
                      PosOf(report.duplicates[j].original) < PosOf(n)}}

\* the other names that score at least the threshold against n and are unclaimed
\* when n is reached
Qualifying(n) ==
    {m \in {ScannedNames[i].s : i \in 1..Len(ScannedNames)} :
        /\ m # n
        /\ ScoreAtLeast(token_sort_ratio(n, m), threshold)
        /\ m \notin ClaimedBefore(n)}

\* C2: the cluster seeded by a not-yet-claimed name holds every other unclaimed
\* name that scores at least the threshold against it, however many there are.
C2_ClusterHoldsEveryQualifyingName ==
    DupDone =>
        \A i \in 1..Len(ScannedNames) :
            LET n == ScannedNames[i].s
            IN (n \notin ClaimedBefore(n) /\ Qualifying(n) # {}) =>
                   \E k \in 1..Len(report.duplicates) :
                       /\ report.duplicates[k].original = n
                       /\ Qualifying(n) \subseteq SeqToSet(report.duplicates[k].matches)

(***************************************************************************)
(* Recipe validation in a full run (Spec)                                  *)
(***************************************************************************)
HasRun == calls.runs >= 1

\* the ingredient slots of all recipes, as <<row, position>>
SlotIds == {<<r, i>> : r \in 1..Len(recipes), i \in 1..NumSlots}

SlotAt(id) == recipes[id[1]].slots[id[2]]

MenuAt(id) == recipes[id[1]].menu

\* how often rec occurs in the list q
Count(q, rec) == Cardinality({k \in 1..Len(q) : q[k] = rec})

\* the slot's name, unit and quantity as the claims speak of them
NormName(slot) == Strip(Lower(AsStr(slot.name)))

NormUnit(slot) == Strip(Lower(slot.unit.s))

QtyParse(slot) == ParseDecimal(RemoveChar(AsStr(slot.qty), ","))

QtyIsNumber(slot) == notna(slot.qty) /\ QtyParse(slot).ok

QtyNotNumber(slot) == notna(slot.qty) /\ ~QtyParse(slot).ok

QtyValue(slot) == FltCell(QtyParse(slot).num, QtyParse(slot).den)

\* the ceilings as the specification lists them
Ceiling(u) ==
    CASE u = <<"g">>  -> 10000
      [] u = <<"k", "g">> -> 50
      [] u = <<"m", "l">> -> 20000
      [] u = <<"l">>  -> 200
      [] u = <<"e", "a">> -> 1000

HasCeiling(slot) == notna(slot.unit) /\ NormUnit(slot) \in { <<"g">>, <<"k", "g">>, <<"m", "l">>, <<"l">>, <<"e", "a">> }

OverCeiling(slot) ==
    /\ QtyIsNumber(slot)
    /\ HasCeiling(slot)
    /\ QtyParse(slot).num > Ceiling(NormUnit(slot)) * QtyParse(slot).den

CeilingRecord(id) ==
    [recipe |-> MenuAt(id), ingredient |-> NormName(SlotAt(id)), quantity |-> QtyValue(SlotAt(id)),
     unit |-> NormUnit(SlotAt(id)), limit |-> Ceiling(NormUnit(SlotAt(id)))]

\* C3: a quantity-ceiling violation is emitted for a slot exactly when its
\* quantity parses as a number, its normalized unit has a ceiling and the
\* quantity is strictly greater than that ceiling; the record carries the
\* ceiling of the slot's own unit.  (The records of the report are those of
\* the slots over their ceiling, each as often as there are such slots.)
C3_CeilingViolationsExact ==
    HasRun =>
        /\ \A id \in SlotIds :
              OverCeiling(SlotAt(id)) =>
                  Count(report.quantity_issues, CeilingRecord(id)) =
                      Cardinality({j \in SlotIds : OverCeiling(SlotAt(j))
                                                     /\ CeilingRecord(j) = CeilingRecord(id)})
        /\ \A k \in 1..Len(report.quantity_issues) :
              \E id \in SlotIds :
                  OverCeiling(SlotAt(id)) /\ CeilingRecord(id) = report.quantity_issues[k]

\* the first slot holds 50 kg and is not reported, while 51 kg in the second is
C3_Witness ==
    /\ HasRun
    /\ QtyIsNumber(recipes[1].slots[1])
    /\ QtyValue(recipes[1].slots[1]) = FltCell(50, 1)
    /\ recipes[1].slots[1].unit = Txt(<<"K", "G">>)
    /\ QtyValue(recipes[1].slots[2]) = FltCell(51, 1)
    /\ recipes[1].slots[2].unit = Txt(<<"k", "g">>)
    /\ \E k \in 1..Len(report.quantity_issues) :
          /\ report.quantity_issues[k].quantity = FltCell(51, 1)
          /\ report.quantity_issues[k].limit = 50
    /\ \A k \in 1..Len(report.quantity_issues) : report.quantity_issues[k].quantity # FltCell(50, 1)

NonNumericRecord(id) ==
    [recipe |-> MenuAt(id), ingredient |-> NormName(SlotAt(id)),
     issue |-> <<"Non-numeric quantity", AsStr(SlotAt(id).qty)>>, type |-> "quantity"]

\* C4: a slot whose quantity is present but not a number gets exactly one issue
\* of type 'quantity', whatever its unit, and no ceiling violation: every
\* ceiling violation carries the parsed quantity of a slot with a numeric one.
C4_NonNumericQuantity ==
    HasRun =>
        /\ \A id \in SlotIds :
              QtyNotNumber(SlotAt(id)) =>
                  Count(report.unit_issues.recipes, NonNumericRecord(id)) =
                      Cardinality({j \in SlotIds : QtyNotNumber(SlotAt(j))
                                                     /\ NonNumericRecord(j) = NonNumericRecord(id)})
        /\ \A k \in 1..Len(report.quantity_issues) :
              \E id \in SlotIds :
                  /\ QtyIsNumber(SlotAt(id))
                  /\ MenuAt(id) = report.quantity_issues[k].recipe
                  /\ NormName(SlotAt(id)) = report.quantity_issues[k].ingredient
                  /\ QtyValue(SlotAt(id)) = report.quantity_issues[k].quantity
        /\ Len(report.quantity_issues) <= Cardinality({id \in SlotIds : QtyIsNumber(SlotAt(id))})

\* the first slot holds "abc" with a unit that has a ceiling and with one that
\* is disallowed; its issue is in the report
C4_Witness ==
    /\ HasRun
    /\ recipes[1].slots[1].qty = Txt(<<"a", "b", "c">>)
    /\ recipes[1].slots[1].unit = Txt(<<"c", "u", "p">>)
    /\ Count(report.unit_issues.recipes, NonNumericRecord(<<1, 1>>)) >= 1
    /\ report.quantity_issues # <<>>

\* the slot's name is that of an item, compared case-insensitively after trimming
NameKnown(slot) ==
    notna(slot.name) /\ \E i \in 1..Len(items) : items[i].name = Txt(NormName(slot))

\* the unit registered for the item the slot names: that of its last row
RegisteredUnit(slot) ==
    items[CHOOSE i \in 1..Len(items) :
              /\ items[i].name = Txt(NormName(slot))
              /\ \A j \in 1..Len(items) : items[j].name = Txt(NormName(slot)) => j <= i].unit

\* the slot's unit is present and differs from the registered one
UnitMismatch(slot) ==
    NameKnown(slot) /\ notna(slot.unit) /\ Txt(NormUnit(slot)) # RegisteredUnit(slot)

MismatchRecord(id) ==
    [recipe |-> MenuAt(id), ingredient |-> NormName(SlotAt(id)),
     recipe_unit |-> NormUnit(SlotAt(id)), item_unit |-> RegisteredUnit(SlotAt(id))]

\* C5: a unit-consistency mismatch is emitted for a slot exactly when its name
\* is that of a known item, its unit is present and its normalized unit
\* differs from the item's registered unit.
C5_UnitConsistencyExact ==
    HasRun =>
        /\ \A id \in SlotIds :
              UnitMismatch(SlotAt(id)) =>
                  Count(report.unit_consistency, MismatchRecord(id)) =
                      Cardinality({j \in SlotIds : UnitMismatch(SlotAt(j))
                                                     /\ MismatchRecord(j) = MismatchRecord(id)})
        /\ \A k \in 1..Len(report.unit_consistency) :
              \E id \in SlotIds :
                  UnitMismatch(SlotAt(id)) /\ MismatchRecord(id) = report.unit_consistency[k]

\* the name is present but empty after trimming
NameBlank(slot) == notna(slot.name) /\ NormName(slot) = <<>>

\* the name is non-empty after trimming and names no item
NameUnknown(slot) == notna(slot.name) /\ NormName(slot) # <<>> /\ ~NameKnown(slot)

\* the slot is to be reported by validate_recipes
Unresolved(slot) == isna(slot.name) \/ NameBlank(slot) \/ NameUnknown(slot)

\* the finding the slot is to get
ResolverRecord(id) ==
    [recipe |-> MenuAt(id),
     missing_ingredient |->
         IF isna(SlotAt(id).name) THEN <<"[", "N", "a", "N", "]">>
         ELSE IF NameBlank(SlotAt(id)) THEN <<"[", "e", "m", "p", "t", "y", " ", "s", "t", "r", "i", "n", "g", "]">>
         ELSE NormName(SlotAt(id)),
     position |-> <<"Ingredient", id[2]>>]

\* what the slot's name is: missing, blank, unknown or known
Kind(slot) ==
    IF isna(slot.name) THEN "missing"
    ELSE IF NameBlank(slot) THEN "blank"
    ELSE IF NameKnown(slot) THEN "known"
    ELSE "unknown"

\* what a reader takes a finding to be about, from its problem value
ReadKind(rec) ==
    IF rec.missing_ingredient = <<"[", "N", "a", "N", "]">> THEN "missing"
    ELSE IF rec.missing_ingredient = <<"[", "e", "m", "p", "t", "y", " ", "s", "t", "r", "i", "n", "g", "]">> THEN "blank"
    ELSE "unknown"

\* the findings are those the slots call for, each as often as there are
\* slots calling for it
OneFindingPerUnresolvedSlot ==
    /\ \A id \in SlotIds :
          Unresolved(SlotAt(id)) =>
              Count(report.recipe_issues, ResolverRecord(id)) =
                  Cardinality({j \in SlotIds : Unresolved(SlotAt(j))
                                                 /\ ResolverRecord(j) = ResolverRecord(id)})
    /\ Len(report.recipe_issues) = Cardinality({id \in SlotIds : Unresolved(SlotAt(id))})
    /\ \A k \in 1..Len(report.recipe_issues) :
          \E id \in SlotIds :
              Unresolved(SlotAt(id)) /\ ResolverRecord(id) = report.recipe_issues[k]

\* C6 as stated: validate_recipes emits at most one finding per slot, tagged
\* with the slot's position: '[NaN]' for a missing name, '[empty string]' for
\* a blank one, the normalized name when it names no item, nothing when it
\* names one; the finding depends on the slot's name alone, and the three
\* kinds of finding are never confused: a finding reads as the kind of the
\* slot it is about.
C6_KindsNeverConfused ==
    HasRun =>
        /\ OneFindingPerUnresolvedSlot
        /\ \A id \in SlotIds :
              Unresolved(SlotAt(id)) =>
                  \E k \in 1..Len(report.recipe_issues) :
                      /\ report.recipe_issues[k] = ResolverRecord(id)
                      /\ ReadKind(report.recipe_issues[k]) = Kind(SlotAt(id))

\* C6 as amended: the findings are as stated, and a finding reads as the
\* kind of the slot it is about unless the slot's name is no item and
\* normalizes to the text '[empty string]': that finding reads as the finding
\* of a blank name.
C6_ResolverFindings ==
    HasRun =>
        /\ OneFindingPerUnresolvedSlot
        /\ \A id \in SlotIds :
              Unresolved(SlotAt(id)) =>
                  \E k \in 1..Len(report.recipe_issues) :
                      /\ report.recipe_issues[k] = ResolverRecord(id)
                      /\ ReadKind(report.recipe_issues[k]) =
                             IF Kind(SlotAt(id)) = "unknown"
                                /\ NormName(SlotAt(id)) = <<"[", "e", "m", "p", "t", "y", " ", "s", "t", "r", "i", "n", "g", "]">>
                             THEN "blank"
                             ELSE Kind(SlotAt(id))

\* the first recipe has a blank name in its first slot, a missing one in its
\* third and a known one in its second, and the two tags are both in the report
C6_Witness ==
    /\ HasRun
    /\ NameBlank(recipes[1].slots[1])
    /\ NameKnown(recipes[1].slots[2])
    /\ isna(recipes[1].slots[3].name)
    /\ Count(report.recipe_issues, Finding(recipes[1].menu, TagEmpty, 1)) = 1
    /\ Count(report.recipe_issues, Finding(recipes[1].menu, TagNaN, 3)) = 1
    /\ \A k \in 1..Len(report.recipe_issues) :
          report.recipe_issues[k].recipe = recipes[1].menu =>
              report.recipe_issues[k].position # <<"Ingredient", 2>>

\* the slot's unit is not blank and not allowed
UnitDisallowed(slot) ==
    notna(slot.unit) /\ NormUnit(slot) # <<>> /\ NormUnit(slot) \notin allowed_units

UnitRecord(id) ==
    [recipe |-> MenuAt(id), ingredient |-> NormName(SlotAt(id)),
     issue |-> <<"Invalid unit", NormUnit(SlotAt(id))>>, type |-> "unit"]

\* the slot names an item and its non-blank unit differs from the item's
UnitDiffers(slot) ==
    /\ NameKnown(slot)
    /\ notna(slot.unit)
    /\ NormUnit(slot) # <<>>
    /\ Txt(NormUnit(slot)) # RegisteredUnit(slot)

\* the slot has a defect in its quantity, its unit or its name
Defective(slot) == QtyNotNumber(slot) \/ UnitDisallowed(slot) \/ isna(slot.name)

IssuesOfType(ty) == SelectSeq(report.unit_issues.recipes, LAMBDA rec : rec.type = ty)

\* C7: a defect in one field of a slot does not suppress the checks on its
\* other fields, nor the checks of the slots and rows after it: a defective
\* slot with a disallowed unit has its unit issue, one with a non-numeric
\* quantity its quantity issue, one over its ceiling its violation and one
\* whose unit differs from its item's its mismatch; and each list has one
\* record for every slot of every row that calls for one.
C7_DefectsDoNotSuppress ==
    HasRun =>
        /\ \A id \in SlotIds :
              Defective(SlotAt(id)) =>
                  /\ UnitDisallowed(SlotAt(id)) =>
                         Count(report.unit_issues.recipes, UnitRecord(id)) >= 1
                  /\ QtyNotNumber(SlotAt(id)) =>
                         Count(report.unit_issues.recipes, NonNumericRecord(id)) >= 1
                  /\ OverCeiling(SlotAt(id)) =>
                         Count(report.quantity_issues, CeilingRecord(id)) >= 1
                  /\ UnitDiffers(SlotAt(id)) =>
                         Count(report.unit_consistency, MismatchRecord(id)) >= 1
        /\ Len(IssuesOfType("unit")) = Cardinality({id \in SlotIds : UnitDisallowed(SlotAt(id))})
        /\ Len(IssuesOfType("quantity")) = Cardinality({id \in SlotIds : QtyNotNumber(SlotAt(id))})
        /\ Len(report.quantity_issues) = Cardinality({id \in SlotIds : OverCeiling(SlotAt(id))})
        /\ Len(report.unit_consistency) = Cardinality({id \in SlotIds : UnitDiffers(SlotAt(id))})

\* the first slot names an item, with a non-numeric quantity and a disallowed
\* unit that differs from the item's, and all three findings are reported; so
\* are those of the defective slots after it and of the second recipe
C7_Witness ==
    /\ HasRun
    /\ Len(recipes) = 2
    /\ QtyNotNumber(recipes[1].slots[1])
    /\ UnitDisallowed(recipes[1].slots[1])
    /\ UnitDiffers(recipes[1].slots[1])
    /\ Count(report.unit_issues.recipes, UnitRecord(<<1, 1>>)) >= 1
    /\ Count(report.unit_issues.recipes, NonNumericRecord(<<1, 1>>)) >= 1
    /\ Count(report.unit_consistency, MismatchRecord(<<1, 1>>)) >= 1
    /\ isna(recipes[1].slots[3].name) /\ UnitDisallowed(recipes[1].slots[3])
    /\ Count(report.unit_issues.recipes, UnitRecord(<<1, 3>>)) >= 1
    /\ OverCeiling(recipes[2].slots[4])
    /\ Count(report.quantity_issues, CeilingRecord(<<2, 4>>)) >= 1

\* the report of one run on the object as constructed
SingleRunReport == generate_report(csv.items, csv.recipes, EmptyReport).report

\* C8: the report is built fresh per run: after any number of calls of
\* generate_report on unchanged tables it equals the report of a single run.
C8_ReportFreshPerRun == HasRun => report = SingleRunReport

\* the report generate_report builds from the tables as read
FinalReport == SingleRunReport

Ran(v) == \E k \in 1..Len(calls.ran) : calls.ran[k] = v

\* the sections of a validator are those of the final report once it has run,
\* and those of the empty report before
UnitSectionsSettled(final) ==
    IF Ran("validate_units_and_quantities")
    THEN /\ report.unit_issues = final.unit_issues
         /\ report.quantity_issues = final.quantity_issues
         /\ report.unit_consistency = final.unit_consistency
    ELSE /\ report.unit_issues = EmptyReport.unit_issues
         /\ report.quantity_issues = EmptyReport.quantity_issues
         /\ report.unit_consistency = EmptyReport.unit_consistency

DuplicatesSettled(final) ==
    IF Ran("find_duplicates") THEN report.duplicates = final.duplicates
    ELSE report.duplicates = EmptyReport.duplicates

MissingSettled(final) ==
    IF Ran("check_missing_data") THEN report.missing_data = final.missing_data
    ELSE report.missing_data = EmptyReport.missing_data

RecipeIssuesSettled(final) ==
    IF Ran("validate_recipes") THEN report.recipe_issues = final.recipe_issues
    ELSE report.recipe_issues = EmptyReport.recipe_issues

AllSettled(final) ==
    /\ items = clean_data(csv.items).items
    /\ recipes = csv.recipes
    /\ DuplicatesSettled(final)
    /\ UnitSectionsSettled(final)
    /\ MissingSettled(final)
    /\ RecipeIssuesSettled(final)
    /\ Len(calls.ran) = 4 => report = final

\* C9: once clean_data has run, the four validators are independent: each
\* leaves the item and recipe tables as clean_data left them and writes only
\* its own sections, whatever ran before it, so that after the four have run
\* once each, in any order, the report is the one generate_report builds.
C9_ValidatorsIndependent == calls.clean >= 1 => AllSettled(FinalReport)

\* the four validators have run in the reverse of generate_report's order, and
\* each has findings in its sections
C9_Witness ==
    /\ calls.ran = <<"validate_recipes", "check_missing_data",
                     "validate_units_and_quantities", "find_duplicates">>
    /\ report = FinalReport
    /\ report.duplicates # <<>>
    /\ report.unit_issues.recipes # <<>>
    /\ report.unit_issues.items # <<>>
    /\ report.quantity_issues # <<>>
    /\ report.unit_consistency # <<>>
    /\ report.missing_data.missing_fields # <<>>
    /\ report.recipe_issues # <<>>

\* C10: clean_data is idempotent: applied to a table it has already
\* normalized it leaves every field of every row identical, for every input
\* table, unparsable sizes, prices and tax rates included.
C10_CleanDataIdempotent ==
    calls.clean >= 1 =>
        /\ clean_data(items).items = items
        /\ items = clean_data(csv.items).items

\* clean_data has run twice on a table whose first row had a name and a unit to
\* fold and trim, an unparsable size, and a price and a tax rate with a fraction
C10_Witness ==
    /\ calls.clean >= 2
    /\ ~calls.raised
    /\ items[1].name = Txt(<<"m", "i", "l", "k">>)
    /\ items[1].unit = Txt(<<"k", "g">>)
    /\ csv.items[1].size = Txt(<<"a", "b", "c">>) /\ items[1].size = NaN
    /\ items[1].price = FltCell(125, 10)
    /\ items[1].tax = FltCell(75, 10)

====
